---- MODULE Spec2Model ----
(***************************************************************************)
(* nfj-server (src/index.js): an Express gateway with a translation        *)
(* fallback chain, a Stripe webhook reconciler, and a users / purchases    *)
(* store reached through db.query.                                         *)
(*                                                                         *)
(* Every handler is an async function: it runs without interruption up to  *)
(* an await, so each action below is one such run (the statement the       *)
(* awaited call executes, followed by the handler's continuation).         *)
(***************************************************************************)
EXTENDS Integers, Sequences, FiniteSets, TLC

VARIABLES env, tr, wh, users, purchases, last, co, cert

vars == <<env, tr, wh, users, purchases, last, co, cert>>

(***************************************************************************)
(* Bounds                                                                  *)
(***************************************************************************)
MaxLen == 2
MaxReq == 2
MaxUsers == 1
NumSessions == 1
MaxLevelInput == 99

(***************************************************************************)
(* JavaScript values of the request body fields: undefined, a string (a    *)
(* sequence of characters) or a non-string truthy value (the number 5).    *)
(***************************************************************************)
Chars == {"a", "b"}

RECURSIVE StringsUpTo(_)
StringsUpTo(n) ==
    IF n = 0 THEN {<<>>}
    ELSE LET shorter == StringsUpTo(n - 1)
         IN  shorter \cup {Append(s, c) : s \in shorter, c \in Chars}

Texts == StringsUpTo(MaxLen)

JsUndefined == [t |-> "undefined", s |-> <<>>]
JsNumber == [t |-> "number", s |-> <<"5">>]
JsString(s) == [t |-> "string", s |-> s]

TextValues == {JsUndefined} \cup {JsString(s) : s \in Texts}
LangValues == {JsUndefined, JsNumber, JsString(<<>>), JsString(<<"e", "n">>)}

\* JavaScript truthiness of a body field: !v is false exactly for these.
Truthy(v) == (v.t = "string" /\ v.s # <<>>) \/ v.t = "number"

\* `${v}`: string conversion inside a template literal.
ToStr(v) == IF v.t = "undefined" THEN <<"undefined">> ELSE v.s

(***************************************************************************)
(* POST /api/translate                                                     *)
(***************************************************************************)
Marker == <<"(Uebersetzung benoetigt API) ">>

\* line 21: the request is rejected when any of q, source, target is falsy
MissingFieldsMut(q, source, target) == ~Truthy(q)
MissingFields(q, source, target) == ~Truthy(q) \/ ~Truthy(source) \/ ~Truthy(target)

\* line 25: source.toUpperCase() / target.toUpperCase() exist only on strings
UpperCaseThrows(source, target) == source.t # "string" \/ target.t # "string"

\* line 27: dlRes.data && dlRes.data.translations && dlRes.data.translations[0]
DeeplPayloads ==
    {[data |-> "null", text |-> <<>>],
     [data |-> "no_translations", text |-> <<>>],
     [data |-> "empty_list", text |-> <<>>]}
    \cup {[data |-> "translations", text |-> t] : t \in Texts}

DeeplAcceptsMut(p) == FALSE
DeeplAccepts(p) == p.data = "translations"

\* line 31: lt.data && lt.data.translatedText
LibrePayloads ==
    {[data |-> "null", text |-> <<>>]}
    \cup {[data |-> "object", text |-> t] : t \in Texts}

LibreAccepts(p) == p.data = "object" /\ p.text # <<>>

\* line 33
FallbackBodyMut(q) == [translatedText |-> Marker, provider |-> "none"]
FallbackBody(q) == [translatedText |-> Marker \o ToStr(q), provider |-> "none"]

\* how an axios.post call settled: it threw, or resolved with payload p
Settled(threw, p) ==
    IF threw THEN [threw |-> TRUE, data |-> "", text |-> <<>>]
    ELSE [threw |-> FALSE, data |-> p.data, text |-> p.text]

NoBody == [translatedText |-> <<>>, provider |-> ""]

TrIdle == [pc |-> "idle", q |-> JsUndefined, source |-> JsUndefined,
           target |-> JsUndefined, calls |-> <<>>, replies |-> <<>>,
           silent |-> FALSE, status |-> 0, body |-> NoBody]

TrRespond(t, status, body) ==
    [t EXCEPT !.pc = "done", !.status = status, !.body = body]

\* lines 29-33: the part of the handler after the DeepL branch
AfterDeepl(t) ==
    IF env.LIBRETRANSLATE_URL
    THEN [t EXCEPT !.pc = "libre", !.calls = Append(@, "libre")]
    ELSE TrRespond(t, 200, FallbackBody(t.q))

\* lines 19-26: a request arrives; the handler runs to its first await
TranslateStart(q, source, target) ==
    /\ tr.pc \in {"idle", "done"}
    /\ LET t == [TrIdle EXCEPT !.q = q, !.source = source, !.target = target]
       IN  tr' = IF MissingFields(q, source, target)
                 THEN TrRespond(t, 400, NoBody)
                 ELSE IF env.DEEPL_API_KEY
                      THEN IF UpperCaseThrows(source, target)
                           THEN TrRespond(t, 500, NoBody)
                           ELSE [t EXCEPT !.pc = "deepl",
                                          !.calls = Append(@, "deepl")]
                      ELSE AfterDeepl(t)
    /\ UNCHANGED <<env, wh, users, purchases, last, co, cert>>

\* lines 24-28, 34-37: the DeepL call settles
DeeplReply(threw, p) ==
    /\ tr.pc = "deepl" /\ ~tr.silent
    /\ LET t == [tr EXCEPT !.replies = Append(@, Settled(threw, p))]
       IN  tr' = IF threw
                 THEN TrRespond(t, 500, NoBody)
                 ELSE IF DeeplAccepts(p)
                      THEN TrRespond(t, 200, [translatedText |-> p.text,
                                              provider |-> "deepl"])
                      ELSE AfterDeepl(t)
    /\ UNCHANGED <<env, wh, users, purchases, last, co, cert>>

\* lines 30-37: the LibreTranslate call settles
LibreReply(threw, p) ==
    /\ tr.pc = "libre" /\ ~tr.silent
    /\ LET t == [tr EXCEPT !.replies = Append(@, Settled(threw, p))]
       IN  tr' = IF threw
                 THEN TrRespond(t, 500, NoBody)
                 ELSE IF LibreAccepts(p)
                      THEN TrRespond(t, 200, [translatedText |-> p.text,
                                              provider |-> "libre"])
                      ELSE TrRespond(t, 200, FallbackBody(t.q))
    /\ UNCHANGED <<env, wh, users, purchases, last, co, cert>>

\* lines 24-26, 30: axios.post is called without a timeout option (axios
\* waits without limit), so when the upstream never replies the awaited
\* promise never settles and the handler has no further step
UpstreamSilent ==
    /\ tr.pc \in {"deepl", "libre"} /\ ~tr.silent
    /\ tr' = [tr EXCEPT !.silent = TRUE]
    /\ UNCHANGED <<env, wh, users, purchases, last, co, cert>>

(***************************************************************************)
(* The store behind db.query: users and purchases.  A statement executes   *)
(* atomically; any statement may fail (connection loss, timeout).          *)
(***************************************************************************)
\* the email addresses clients register with
EmailOf(n) == <<"user", n>>

\* metadata.userId of a session: 0 stands for an absent or empty value
Absent == 0
\* SQL NULL in purchases.user_id
Null == -1
UserIdInputs == 0..MaxUsers

SessionIds == {<<"cs", n>> : n \in 1..NumSessions}
NoSession == <<"cs", 0>>

EventTypes == {"checkout.session.completed", "payment_intent.succeeded"}

\* session.amount_total and session.currency; -1 and "" stand for absent
NoAmount == -1
AmountInputs == {NoAmount, 0, 1000}
CurrencyInputs == {"", "usd"}

UserById(id) == {u \in users : u.id = id}

\* users.id is generated by the store; rows are never deleted
NewUserId == Cardinality(users) + 1
NewUser(email) ==
    [id |-> NewUserId, email |-> email, points |-> 0, level |-> 1,
     is_premium |-> FALSE]

\* line 70: UPDATE users SET is_premium = true WHERE id = $1
SetPremiumMut(us, id) == us
SetPremiumFlip(us, id) ==
    {IF u.id = id THEN [u EXCEPT !.is_premium = ~@] ELSE u : u \in us}
SetPremium(us, id) ==
    {IF u.id = id THEN [u EXCEPT !.is_premium = TRUE] ELSE u : u \in us}

\* line 71: the row of INSERT INTO purchases (...) VALUES ($1,$2,$3,$4,$5)
PriceDefault == 499
PurchaseRowMut(userId, sid, amount_total, currency) ==
    [user_id |-> IF userId # Absent THEN userId ELSE Null,
     provider |-> "stripe",
     provider_id |-> NoSession,
     amount |-> IF amount_total \in {NoAmount, 0} THEN PriceDefault ELSE amount_total,
     currency |-> IF currency = "" THEN "eur" ELSE currency]
PurchaseRow(userId, sid, amount_total, currency) ==
    [user_id |-> IF userId # Absent THEN userId ELSE Null,
     provider |-> "stripe",
     provider_id |-> sid,
     amount |-> IF amount_total \in {NoAmount, 0} THEN PriceDefault ELSE amount_total,
     currency |-> IF currency = "" THEN "eur" ELSE currency]

\* uniqueness constraint of purchases on (provider, provider_id)
UniqueViolation(ps, row) ==
    \E i \in 1..Len(ps) :
        ps[i].provider = row.provider /\ ps[i].provider_id = row.provider_id

\* purchases.user_id is a nullable reference to users.id
ForeignKeyViolation(us, row) ==
    row.user_id # Null /\ row.user_id \notin {u.id : u \in us}

RowsFor(provider, sid) ==
    {i \in 1..Len(purchases) :
        purchases[i].provider = provider /\ purchases[i].provider_id = sid}

(***************************************************************************)
(* POST /webhook                                                           *)
(***************************************************************************)
WhIdle == [pc |-> "idle", get |-> FALSE, sigOk |-> FALSE, verified |-> "none",
           type |-> "", sid |-> NoSession,
           userId |-> Absent, updated |-> "none", inserted |-> "none",
           queries |-> 0, status |-> 0, nresp |-> 0, body |-> ""]

Reqs == 1..MaxReq

\* lines 60-61: the Stripe client exists and constructEvent returns an event
VerifiesMut(sigOk) == TRUE
Verifies(sigOk) ==
    env.STRIPE_SECRET_KEY /\ env.STRIPE_WEBHOOK_SECRET /\ sigOk

\* line 66
IsCompletionMut(type) == TRUE
IsCompletionLoose(type) == type # ""
IsCompletion(type) == type = "checkout.session.completed"

\* line 74
Acknowledge(w) ==
    [w EXCEPT !.pc = "done", !.status = 200, !.nresp = @ + 1,
              !.body = "received"]

\* line 64
Reject(w) ==
    [w EXCEPT !.pc = "done", !.status = 400, !.nresp = @ + 1,
              !.body = "Webhook Error"]

\* line 57: req.headers.get is called when the request carries a header
\* named "get"; its value is a string, the call throws outside the try and
\* the async handler rejects: no response (Express 4) or the default error
\* handler's 500 (Express 5).
HeaderLookupThrows(hasGetHeader) == hasGetHeader

Rejected(w, answered) ==
    IF answered
    THEN [w EXCEPT !.pc = "done", !.status = 500, !.nresp = @ + 1,
                   !.body = "Internal Server Error"]
    ELSE [w EXCEPT !.pc = "done"]

\* A delivery, described by what the handler reads of it: whether it carries
\* a header named "get"; if not, whether its signature is valid; if so, the
\* event's type; for a completion event, the session's id and metadata.userId.
WebhookRequests ==
    {[hasGetHeader |-> TRUE, sigOk |-> FALSE, type |-> "", sid |-> NoSession,
      userId |-> Absent],
     [hasGetHeader |-> FALSE, sigOk |-> FALSE, type |-> "", sid |-> NoSession,
      userId |-> Absent]}
    \cup {[hasGetHeader |-> FALSE, sigOk |-> TRUE, type |-> type,
           sid |-> NoSession, userId |-> Absent] :
              type \in EventTypes \ {"checkout.session.completed"}}
    \cup {[hasGetHeader |-> FALSE, sigOk |-> TRUE,
           type |-> "checkout.session.completed", sid |-> sid,
           userId |-> userId] : sid \in SessionIds, userId \in UserIdInputs}

\* line 70: if (userId)
HasUserMut(userId) == TRUE
HasUser(userId) == userId # Absent

\* lines 56-71: a delivery arrives; the handler runs to its first await
Deliver(r, req, answered) ==
    /\ wh[r].pc \in {"idle", "done"}
    /\ answered => HeaderLookupThrows(req.hasGetHeader)
    /\ wh' = [wh EXCEPT ![r] =
          LET w0 == [WhIdle EXCEPT !.get = req.hasGetHeader,
                                   !.sigOk = req.sigOk]
          IN
          IF HeaderLookupThrows(req.hasGetHeader)
          THEN Rejected(w0, answered)
          ELSE IF ~Verifies(req.sigOk)
          THEN Reject([w0 EXCEPT !.verified = "failed"])
          ELSE LET w == [w0 EXCEPT !.verified = "ok", !.type = req.type]
               IN  IF ~IsCompletion(req.type)
                   THEN Acknowledge(w)
                   ELSE [w EXCEPT !.sid = req.sid, !.userId = req.userId,
                                  !.queries = 1,
                                  !.pc = IF HasUser(req.userId) THEN "update"
                                         ELSE "insert"]]
    /\ UNCHANGED <<env, tr, users, purchases, last, co, cert>>

\* lines 70-72: the UPDATE executes; on success the handler issues the INSERT,
\* on failure the catch logs and the handler acknowledges
Update(r, ok) ==
    /\ wh[r].pc = "update"
    /\ IF ok
       THEN /\ users' = SetPremium(users, wh[r].userId)
            /\ wh' = [wh EXCEPT ![r].pc = "insert",
                                ![r].queries = @ + 1,
                                ![r].updated =
                                    IF UserById(wh[r].userId) # {}
                                    THEN "set" ELSE "no_row"]
       ELSE /\ users' = users
            /\ wh' = [wh EXCEPT ![r] =
                          Acknowledge([wh[r] EXCEPT !.updated = "failed"])]
    /\ UNCHANGED <<env, tr, purchases, last, co, cert>>

\* line 71: INSERT INTO purchases adds one row and touches no other
InsertRowMut(ps, row) == <<row>>
InsertRow(ps, row) == Append(ps, row)

\* lines 71-74: the INSERT executes; the handler acknowledges either way
Insert(r, ok, amount_total, currency) ==
    /\ wh[r].pc = "insert"
    /\ LET row == PurchaseRow(wh[r].userId, wh[r].sid, amount_total, currency)
           done == ok /\ ~UniqueViolation(purchases, row)
                      /\ ~ForeignKeyViolation(users, row)
       IN  /\ purchases' = IF done THEN InsertRow(purchases, row) ELSE purchases
           /\ wh' = [wh EXCEPT ![r] =
                  Acknowledge([wh[r] EXCEPT !.inserted =
                      IF done THEN "ok"
                      ELSE IF ok /\ UniqueViolation(purchases, row)
                           THEN "duplicate" ELSE "failed"])]
    /\ UNCHANGED <<env, tr, users, last, co, cert>>

(***************************************************************************)
(* POST /api/register and GET /api/me/:id                                  *)
(***************************************************************************)
NoResponse == [route |-> "", key |-> 0, status |-> 0, rows |-> {},
               acked |-> FALSE, applied |-> FALSE]

\* some finished delivery acknowledged a verified completion event for id
AckedFor(id) ==
    \E r \in Reqs : /\ wh[r].pc = "done" /\ wh[r].status = 200
                    /\ wh[r].verified = "ok"
                    /\ wh[r].type = "checkout.session.completed"
                    /\ wh[r].userId = id

\* ... and its UPDATE set the premium flag of an existing row
AppliedFor(id) ==
    \E r \in Reqs : /\ wh[r].pc = "done" /\ wh[r].status = 200
                    /\ wh[r].userId = id /\ wh[r].updated = "set"

\* line 98: INSERT ... ON CONFLICT (email) DO UPDATE SET email = EXCLUDED.email
UpsertMut(us, email) ==
    {u \in us : u.email # email} \cup {NewUser(email)}
Upsert(us, email) ==
    IF \E u \in us : u.email = email THEN us ELSE us \cup {NewUser(email)}

\* lines 95-99; n = 0 stands for a body without email, answered 400
\* before any query
Register(n, ok) ==
    /\ n = 0 => ~ok
    /\ LET email == EmailOf(n)
       IN  IF n = 0
           THEN /\ users' = users
                /\ last' = [NoResponse EXCEPT !.route = "register",
                               !.status = 400]
           ELSE IF ok
           THEN /\ users' = Upsert(users, email)
                /\ last' = [NoResponse EXCEPT !.route = "register", !.key = n,
                               !.status = 200,
                               !.rows = {u \in Upsert(users, email) :
                                             u.email = email}]
           ELSE /\ users' = users
                /\ last' = [NoResponse EXCEPT !.route = "register", !.key = n,
                               !.status = 500]
    /\ UNCHANGED <<env, tr, wh, purchases, co, cert>>

\* lines 101-104
Me(id, ok) ==
    /\ last' = IF ok
               THEN [NoResponse EXCEPT !.route = "me", !.key = id,
                        !.status = 200, !.rows = UserById(id),
                        !.acked = AckedFor(id), !.applied = AppliedFor(id)]
               ELSE [NoResponse EXCEPT !.route = "me", !.key = id,
                        !.status = 500, !.acked = AckedFor(id),
                        !.applied = AppliedFor(id)]
    /\ UNCHANGED <<env, tr, wh, users, purchases, co, cert>>

(***************************************************************************)
(* POST /api/create-checkout-session                                       *)
(***************************************************************************)
CoIdle == [pc |-> "idle", userId |-> Absent, calls |-> 0, reply |-> "none",
           metadata |-> Absent, unit_amount |-> 0, status |-> 0,
           body |-> "", session |-> NoSession]

\* line 42: !stripe
NotConfiguredMut == FALSE
NotConfigured == ~env.STRIPE_SECRET_KEY

\* lines 40-51: the handler runs to the await of stripe.checkout.sessions.create
CheckoutStart(userId) ==
    /\ co.pc \in {"idle", "done"}
    /\ co' = IF NotConfigured
             THEN [CoIdle EXCEPT !.pc = "done", !.userId = userId,
                                 !.status = 500,
                                 !.body = "Stripe not configured"]
             ELSE [CoIdle EXCEPT !.pc = "stripe", !.userId = userId,
                                 !.calls = 1, !.metadata = userId,
                                 !.unit_amount = PriceDefault]
    /\ UNCHANGED <<env, tr, wh, users, purchases, last, cert>>

\* lines 52-53: the provider call settles
CheckoutReply(ok, sid) ==
    /\ co.pc = "stripe"
    /\ co' = IF ok
             THEN [co EXCEPT !.pc = "done", !.reply = "ok", !.status = 200,
                             !.body = "id, url", !.session = sid]
             ELSE [co EXCEPT !.pc = "done", !.reply = "failed",
                             !.status = 500, !.body = "stripe error"]
    /\ UNCHANGED <<env, tr, wh, users, purchases, last, cert>>

(***************************************************************************)
(* GET /api/certificate/:name/:level                                       *)
(*                                                                         *)
(* A JavaScript number is [nan, twice]: NaN, or the number twice / 2, so    *)
(* that the halves between the integers are numbers too.                   *)
(***************************************************************************)
NaN == [nan |-> TRUE, twice |-> 0]
Num(n) == [nan |-> FALSE, twice |-> 2 * n]

\* the :level segment: a decimal integer such as "7" or "-2", a decimal
\* fraction "n.5", or a word such as "abc"
LevelSegments ==
    {[form |-> "integer", n |-> n] : n \in -2..MaxLevelInput}
    \cup {[form |-> "fraction", n |-> n] : n \in -2..MaxLevelInput}
    \cup {[form |-> "word", n |-> 0]}

\* the :name segment as Express hands it over: plain text, text that still
\* holds an escape such as "%41", or text with a lone "%"
NameSegments == {"plain", "escaped", "lone_percent"}

\* Number(level || 1): a route segment is never empty
NumberOf(seg) ==
    IF seg.form = "integer" THEN Num(seg.n)
    ELSE IF seg.form = "fraction" THEN [nan |-> FALSE, twice |-> 2 * seg.n + 1]
    ELSE NaN

\* Math.min(a, x) and Math.max(a, x) for an integer a: NaN if x is NaN
MathMin(a, x) ==
    IF x.nan THEN NaN
    ELSE [nan |-> FALSE, twice |-> IF x.twice < 2 * a THEN x.twice ELSE 2 * a]
MathMax(a, x) ==
    IF x.nan THEN NaN
    ELSE [nan |-> FALSE, twice |-> IF x.twice > 2 * a THEN x.twice ELSE 2 * a]

MinLevel == 1
MaxLevel == 20

\* line 79
TitleIndex(seg) == MathMax(MinLevel, MathMin(MaxLevel, NumberOf(seg)))

\* line 80
TITLES ==
    <<"Ruderer", "Bootsmann", "Waechter", "Seefahrer", "Schildtraeger",
      "Seemann", "Wikingerjung", "Skalde", "Krieger", "Navigator",
      "Faehrmann", "Stammesmitglied", "Hafenmeister", "Herscher",
      "Schiffbauer", "Haeuptling", "Jarl", "Erzjaeger", "Schildoberst",
      "Koenig">>

\* line 87: TITLES[titleIndex-1], undefined when that is no index of the array
TitleAt(x) ==
    IF ~x.nan /\ x.twice % 2 = 0 /\ (x.twice \div 2) \in 1..Len(TITLES)
    THEN TITLES[x.twice \div 2]
    ELSE "undefined"

\* line 82: the attachment's file name, with the number as the template prints it
Filename(x) == <<"nfj_certificate_level_", x, ".pdf">>

\* line 89: decodeURIComponent(name) throws URIError on a lone "%"
DecodeThrows(name) == name = "lone_percent"

CertIdle == [pc |-> "idle", level |-> [form |-> "word", n |-> 0],
             name |-> "plain", titleIndex |-> NaN, title |-> "",
             filename |-> <<>>, ended |-> FALSE]

\* lines 77-93: the handler has no await; a throw at line 89 leaves the headers
\* sent and the document never ended
Certificate(name, level) ==
    /\ cert' = [pc |-> "done", level |-> level, name |-> name,
                titleIndex |-> TitleIndex(level),
                title |-> TitleAt(TitleIndex(level)),
                filename |-> Filename(TitleIndex(level)),
                ended |-> ~DecodeThrows(name)]
    /\ UNCHANGED <<env, tr, wh, users, purchases, last, co>>

(***************************************************************************)
(* Specifications                                                          *)
(***************************************************************************)
\* lines 11, 23, 29, 61: process.env is read-only after start
Environments ==
    [DEEPL_API_KEY : BOOLEAN, LIBRETRANSLATE_URL : BOOLEAN,
     STRIPE_SECRET_KEY : BOOLEAN, STRIPE_WEBHOOK_SECRET : BOOLEAN]

Init ==
    /\ env \in Environments
    /\ tr = TrIdle
    /\ wh = [r \in Reqs |-> WhIdle]
    /\ users = {}
    /\ purchases = <<>>
    /\ last = NoResponse
    /\ co = CoIdle
    /\ cert = CertIdle

NextTranslate ==
    \/ \E q \in TextValues, source \in LangValues, target \in LangValues :
           TranslateStart(q, source, target)
    \/ \E threw \in BOOLEAN, p \in DeeplPayloads : DeeplReply(threw, p)
    \/ \E threw \in BOOLEAN, p \in LibrePayloads : LibreReply(threw, p)
    \/ UpstreamSilent

Next ==
    \/ \E r \in Reqs, req \in WebhookRequests, answered \in BOOLEAN :
           Deliver(r, req, answered)
    \/ \E r \in Reqs, ok \in BOOLEAN : Update(r, ok)
    \/ \E r \in Reqs, ok \in BOOLEAN, amount_total \in AmountInputs,
          currency \in CurrencyInputs :
           Insert(r, ok, amount_total, currency)
    \/ \E n \in 0..MaxUsers, ok \in BOOLEAN : Register(n, ok)
    \/ \E id \in 1..MaxUsers, ok \in BOOLEAN : Me(id, ok)

NextCertificate ==
    \E name \in NameSegments, level \in LevelSegments : Certificate(name, level)

Spec == Init /\ [][Next]_vars

SpecCertificate == Init /\ [][NextCertificate]_vars

\* The store outlives the process: a start may find users and purchases that
\* earlier runs have written.
StoredUsers ==
    LET u == [id |-> 1, email |-> EmailOf(1), points |-> 0, level |-> 1,
              is_premium |-> FALSE]
    IN  {{}, {u}, {[u EXCEPT !.is_premium = TRUE]}}

StoredPurchases ==
    {<<>>} \cup {<<PurchaseRow(Absent, sid, NoAmount, "")>> : sid \in SessionIds}

InitStored ==
    /\ env \in Environments
    /\ tr = TrIdle
    /\ wh = [r \in Reqs |-> WhIdle]
    /\ users \in StoredUsers
    /\ purchases \in StoredPurchases
    /\ last = NoResponse
    /\ co = CoIdle
    /\ cert = CertIdle

NextCheckout ==
    \/ \E userId \in UserIdInputs : CheckoutStart(userId)
    \/ \E ok \in BOOLEAN, sid \in SessionIds : CheckoutReply(ok, sid)

SpecCheckout == InitStored /\ [][NextCheckout]_vars

\* a start that finds the purchase of an earlier checkout session in the ledger
EarlierSession == <<"cs", NumSessions + 1>>

EarlierPurchase == PurchaseRow(Absent, EarlierSession, 1000, "usd")

InitLedger ==
    /\ env \in Environments
    /\ tr = TrIdle
    /\ wh = [r \in Reqs |-> WhIdle]
    /\ users = {}
    /\ purchases = <<EarlierPurchase>>
    /\ last = NoResponse
    /\ co = CoIdle
    /\ cert = CertIdle

SpecLedger == InitLedger /\ [][Next]_vars

SpecTranslate == Init /\ [][NextTranslate]_vars

\* an upstream that has not gone silent settles the call, and the event loop
\* runs the handler's continuation
SpecTranslateFair ==
    /\ SpecTranslate
    /\ WF_vars(\E threw \in BOOLEAN, p \in DeeplPayloads : DeeplReply(threw, p))
    /\ WF_vars(\E threw \in BOOLEAN, p \in LibrePayloads : LibreReply(threw, p))

(***************************************************************************)
(* Claims about POST /api/translate (checked under SpecTranslate)          *)
(***************************************************************************)
\* a body field that is missing or empty
MissingOrEmpty(v) == v.t = "undefined" \/ (v.t = "string" /\ v.s = <<>>)

RequestComplete ==
    ~MissingOrEmpty(tr.q) /\ ~MissingOrEmpty(tr.source) /\ ~MissingOrEmpty(tr.target)

\* a settled call that carries a translation with a non-empty text
WellFormed(reply) ==
    ~reply.threw /\ reply.data \in {"translations", "object"} /\ reply.text # <<>>

\* a settled DeepL call that threw, or resolved with no translation entry
DeeplSoftFailed(reply) ==
    reply.threw \/ reply.data \in {"null", "no_translations", "empty_list"}

\* the adapters that are configured, in the handler's order
ConfiguredAdapters ==
    (IF env.DEEPL_API_KEY THEN <<"deepl">> ELSE <<>>)
    \o (IF env.LIBRETRANSLATE_URL THEN <<"libre">> ELSE <<>>)

\* C7: when DeepL is configured and soft-fails (throws, or resolves with an
\* empty or malformed payload) and LibreTranslate is configured, LibreTranslate
\* is called, no error status is returned, and a well-formed LibreTranslate
\* reply is the response, tagged "libre".
C7_SecondaryAfterSoftFailure ==
    (/\ tr.pc = "done"
     /\ env.DEEPL_API_KEY /\ env.LIBRETRANSLATE_URL
     /\ Len(tr.replies) >= 1 /\ DeeplSoftFailed(tr.replies[1]))
    => /\ tr.calls = <<"deepl", "libre">>
       /\ Len(tr.replies) = 2
       /\ WellFormed(tr.replies[2])
            => /\ tr.status = 200
               /\ tr.body = [translatedText |-> tr.replies[2].text,
                             provider |-> "libre"]

\* C8: adapters are called in the order DeepL, LibreTranslate, only when
\* configured; when the first configured adapter replies with a well-formed
\* translation, the response carries its text and tag and no other adapter is
\* called.
C8_FirstAdapterShortCircuits ==
    /\ \E n \in 0..Len(ConfiguredAdapters) :
           tr.calls = SubSeq(ConfiguredAdapters, 1, n)
    /\ (/\ tr.pc # "idle"
        /\ Len(tr.replies) >= 1 /\ WellFormed(tr.replies[1]))
       => /\ tr.pc = "done"
          /\ tr.status = 200
          /\ tr.calls = <<ConfiguredAdapters[1]>>
          /\ tr.body = [translatedText |-> tr.replies[1].text,
                        provider |-> ConfiguredAdapters[1]]

C8_Witness ==
    /\ tr.pc = "done"
    /\ env.DEEPL_API_KEY /\ env.LIBRETRANSLATE_URL
    /\ tr.calls = <<"deepl">>
    /\ tr.replies = <<[threw |-> FALSE, data |-> "translations", text |-> <<"a">>]>>
    /\ tr.body = [translatedText |-> <<"a">>, provider |-> "deepl"]

\* C9: a request in which q, source or target is missing or empty is answered
\* 400 and no adapter is called.
C9_MissingFieldRejected ==
    (tr.pc # "idle" /\ ~RequestComplete)
    => /\ tr.pc = "done"
       /\ tr.status = 400
       /\ tr.calls = <<>>

C9_Witness ==
    /\ tr.pc = "done"
    /\ env.DEEPL_API_KEY
    /\ tr.q = JsString(<<"a">>)
    /\ tr.source = JsUndefined
    /\ tr.target = JsString(<<"e", "n">>)
    /\ tr.status = 400

\* C10: with no adapter configured, a complete request is answered without any
\* upstream call by the fallback: the marker followed by q, tagged "none".
C10_FallbackWhenUnconfigured ==
    (/\ tr.pc # "idle" /\ RequestComplete
     /\ ~env.DEEPL_API_KEY /\ ~env.LIBRETRANSLATE_URL)
    => /\ tr.pc = "done"
       /\ tr.calls = <<>>
       /\ tr.status = 200
       /\ tr.body = [translatedText |-> <<"(Uebersetzung benoetigt API) ">> \o tr.q.s,
                     provider |-> "none"]

C10_Witness ==
    /\ tr.pc = "done"
    /\ ~env.DEEPL_API_KEY /\ ~env.LIBRETRANSLATE_URL
    /\ tr.q = JsString(<<"a", "b">>)
    /\ tr.status = 200
    /\ tr.body.translatedText = <<"(Uebersetzung benoetigt API) ", "a", "b">>

(***************************************************************************)
(* Claims about POST /webhook and the store (checked under Spec)           *)
(***************************************************************************)
Completion == "checkout.session.completed"

\* the request of slot r carries a signature that is valid for the configured
\* secret, the Stripe client exists, and the handler got as far as verifying
ValidlySigned(r) ==
    /\ wh[r].pc # "idle" /\ ~wh[r].get
    /\ env.STRIPE_SECRET_KEY /\ env.STRIPE_WEBHOOK_SECRET /\ wh[r].sigOk

\* the handler of slot r got as far as verifying and verification failed
VerificationFails(r) ==
    /\ wh[r].pc # "idle" /\ ~wh[r].get
    /\ ~(env.STRIPE_SECRET_KEY /\ env.STRIPE_WEBHOOK_SECRET /\ wh[r].sigOk)

NoDuplicatePair ==
    \A i, j \in 1..Len(purchases) :
        (/\ purchases[i].provider = purchases[j].provider
         /\ purchases[i].provider_id = purchases[j].provider_id) => i = j

\* C1 as stated: once a validly-signed completion event for session S has been
\* handled, the ledger holds exactly one row ('stripe', S), and never two rows
\* with the same (provider, providerId).
C1_ExactlyOneRow ==
    /\ NoDuplicatePair
    /\ \A r \in Reqs :
           (wh[r].pc = "done" /\ ValidlySigned(r) /\ wh[r].type = Completion)
           => Cardinality(RowsFor("stripe", wh[r].sid)) = 1

\* C1 amended: the ledger never holds two rows with the same (provider,
\* providerId); for a session S whose completion event was delivered any number
\* of times it holds at most one row ('stripe', S), and exactly one once the
\* INSERT of some delivery has succeeded.
C1_AtMostOneRow ==
    /\ NoDuplicatePair
    /\ \A sid \in SessionIds : Cardinality(RowsFor("stripe", sid)) <= 1
    /\ \A r \in Reqs :
           (wh[r].pc = "done" /\ wh[r].inserted \in {"ok", "duplicate"})
           => Cardinality(RowsFor("stripe", wh[r].sid)) = 1

\* two deliveries of the same event: one inserted the row, the other hit the
\* row already there
C1_Witness ==
    \E r1, r2 \in Reqs :
        /\ r1 # r2
        /\ wh[r1].pc = "done" /\ wh[r2].pc = "done"
        /\ ValidlySigned(r1) /\ ValidlySigned(r2)
        /\ wh[r1].type = Completion /\ wh[r2].type = Completion
        /\ wh[r1].sid = wh[r2].sid /\ wh[r1].userId = wh[r2].userId
        /\ wh[r1].inserted = "ok" /\ wh[r2].inserted = "duplicate"
        /\ Cardinality(RowsFor("stripe", wh[r1].sid)) = 1

\* C2: a delivery whose signature verification fails is answered 400 and issues
\* no storage query; every storage query of a handler comes after the successful
\* verification of its own request.
C2_UnverifiedNeverTouchesStore ==
    \A r \in Reqs :
        /\ VerificationFails(r)
               => /\ wh[r].pc = "done"
                  /\ wh[r].status = 400 /\ wh[r].nresp = 1
                  /\ wh[r].queries = 0
                  /\ wh[r].updated = "none" /\ wh[r].inserted = "none"
        /\ (wh[r].queries > 0 \/ wh[r].pc \in {"update", "insert"})
               => ValidlySigned(r)

C2_Witness ==
    \E r \in Reqs :
        /\ env.STRIPE_SECRET_KEY /\ env.STRIPE_WEBHOOK_SECRET
        /\ wh[r].pc = "done" /\ ~wh[r].get /\ ~wh[r].sigOk
        /\ wh[r].status = 400 /\ wh[r].queries = 0

C4_AtomicApply ==
    \A r \in Reqs :
        (wh[r].pc = "done" /\ wh[r].updated = "set")
        => RowsFor("stripe", wh[r].sid) # {}

\* C5: every delivery ends with exactly one response, a 400 rejection or the
\* acknowledgement {received: true}; a verified event is always acknowledged.
C5_ExactlyOneResponse ==
    \A r \in Reqs :
        wh[r].pc = "done"
        => /\ wh[r].nresp = 1
           /\ \/ wh[r].status = 400
              \/ wh[r].status = 200 /\ wh[r].body = "received"
           /\ wh[r].verified = "ok"
                  => wh[r].status = 200 /\ wh[r].body = "received"

\* C6: a validly-signed event of another type than checkout.session.completed
\* is acknowledged with {received: true} and issues no storage query.
C6_OtherEventsIgnored ==
    \A r \in Reqs :
        (ValidlySigned(r) /\ wh[r].type # Completion)
        => /\ wh[r].pc = "done"
           /\ wh[r].status = 200 /\ wh[r].body = "received" /\ wh[r].nresp = 1
           /\ wh[r].queries = 0
           /\ wh[r].updated = "none" /\ wh[r].inserted = "none"

C6_Witness ==
    \E r \in Reqs :
        /\ ValidlySigned(r) /\ wh[r].type = "payment_intent.succeeded"
        /\ wh[r].pc = "done" /\ wh[r].status = 200
        /\ users # {} /\ purchases # <<>>

(***************************************************************************)
(* Claims about POST /api/register (checked under Spec)                    *)
(***************************************************************************)
RowsWithEmail(us, email) == {u \in us : u.email = email}

\* C11: registration is an idempotent upsert keyed by email: every step keeps
\* each user's id and email; a registration changes no existing row (id,
\* points, level, is_premium), leaves at most one row per email, and when the
\* store answers it returns the one row of that email, which is the row that
\* was there before if there was one.
C11_RegisterIdempotent ==
    [][/\ \A u \in users : \E v \in users' : v.id = u.id /\ v.email = u.email
       /\ \A n \in 1..MaxUsers, ok \in BOOLEAN :
            Register(n, ok) =>
              /\ \A u \in users : u \in users'
              /\ \A m \in 1..MaxUsers :
                     Cardinality(RowsWithEmail(users', EmailOf(m))) <= 1
              /\ ok => /\ last'.status = 200
                       /\ last'.rows = RowsWithEmail(users', EmailOf(n))
                       /\ Cardinality(last'.rows) = 1
                       /\ \A u \in RowsWithEmail(users, EmailOf(n)) :
                              last'.rows = {u}]_vars

\* a registered user who became premium registers again and gets the same row
C11_Witness ==
    /\ last.route = "register" /\ last.status = 200
    /\ \E u \in last.rows : u.is_premium /\ u.id = 1 /\ u.email = EmailOf(last.key)
    /\ Cardinality(users) = 1

(***************************************************************************)
(* Claims about upstream timeouts (checked under SpecTranslateFair)        *)
(***************************************************************************)
\* C12: every request that waits for an adapter is eventually answered, also
\* when the adapter never replies.
C12_EveryRequestAnswered == (tr.pc \in {"deepl", "libre"}) ~> (tr.pc = "done")

(***************************************************************************)
(* Claims about GET /api/certificate (checked under SpecCertificate)       *)
(***************************************************************************)
\* C13: for every requested level the level used is an integer of 1..20 (the
\* requested integer clamped into that range), its title exists in the table
\* of 20 titles, and the file name encodes that level.
C13_LevelClamped ==
    cert.pc = "done"
    => /\ \E k \in 1..20 : /\ cert.titleIndex = [nan |-> FALSE, twice |-> 2 * k]
                           /\ cert.filename = <<"nfj_certificate_level_",
                                                [nan |-> FALSE, twice |-> 2 * k],
                                                ".pdf">>
                           /\ cert.title = TITLES[k]
       /\ cert.level.form = "integer"
            => cert.titleIndex.twice =
                   2 * (IF cert.level.n < 1 THEN 1
                        ELSE IF cert.level.n > 20 THEN 20 ELSE cert.level.n)
       /\ Len(TITLES) = 20

(***************************************************************************)
(* Claims about POST /api/create-checkout-session (under SpecCheckout)     *)
(***************************************************************************)
\* C14: without payment credentials the request is answered 500 and the
\* provider is not called; when the provider call fails the answer is 500 too;
\* no step of the handler changes the users or the purchases.
C14_CheckoutFailures ==
    /\ [](co.pc # "idle" /\ ~env.STRIPE_SECRET_KEY
            => co.pc = "done" /\ co.status = 500 /\ co.calls = 0)
    /\ [](co.pc = "done" /\ co.reply = "failed"
            => co.status = 500 /\ co.calls = 1)
    /\ [][users' = users /\ purchases' = purchases]_vars

C14_Witness ==
    /\ co.pc = "done" /\ co.status = 500
    /\ co.reply = "failed" /\ env.STRIPE_SECRET_KEY
    /\ users # {} /\ purchases # <<>>

(***************************************************************************)
(* Claims about the purchase ledger and the users table                    *)
(***************************************************************************)
\* a step in which request r's INSERT executes and adds its row
InsertStep(r) ==
    /\ wh[r].pc = "insert"
    /\ wh'[r].pc = "done"
    /\ wh'[r].inserted = "ok"

\* C15: the purchase ledger is append-only: in every step, each row present
\* before the step is present and unchanged (same position, same content)
\* after it; the ledger changes only by gaining one row at its end, and only
\* in a step of the webhook handler that executes its INSERT.  Checked from a
\* start whose ledger already holds an earlier purchase.
C15_LedgerAppendOnly ==
    [][/\ Len(purchases') >= Len(purchases)
       /\ \A i \in 1..Len(purchases) : purchases'[i] = purchases[i]
       /\ purchases' # purchases =>
              /\ Len(purchases') = Len(purchases) + 1
              /\ \E r \in Reqs : InsertStep(r)]_vars

\* a row has been added behind the earlier purchase, which is still in place
C15_Witness ==
    /\ Len(purchases) = 2
    /\ purchases[1] = EarlierPurchase
    /\ \E r \in Reqs : wh[r].pc = "done" /\ wh[r].inserted = "ok"
                        /\ purchases[2].provider_id = wh[r].sid

\* slot r handles a validly-signed completion event without metadata.userId
Anonymous(r) ==
    /\ ValidlySigned(r)
    /\ wh[r].type = Completion
    /\ wh[r].userId = Absent

\* C16 as stated: once a validly-signed completion event with absent or empty
\* metadata.userId has been handled, the handler has changed no premium flag
\* and the ledger holds one row for the session id, with a null userId.
C16_AnonymousRowInserted ==
    \A r \in Reqs :
        (Anonymous(r) /\ wh[r].pc = "done")
        => /\ wh[r].updated = "none"
           /\ \E i \in 1..Len(purchases) :
                  /\ purchases[i].provider_id = wh[r].sid
                  /\ purchases[i].user_id = Null

\* C16 amended: the handler of a validly-signed completion event with absent
\* or empty metadata.userId issues no UPDATE and none of its steps changes the
\* users table; its only query is the INSERT, and when that INSERT succeeds the
\* ledger holds exactly one row for the session id, with a null userId.
C16_AnonymousPurchase ==
    /\ [](\A r \in Reqs :
             Anonymous(r)
             => /\ wh[r].pc \in {"insert", "done"}
                /\ wh[r].updated = "none"
                /\ wh[r].queries = 1
                /\ wh[r].inserted = "ok"
                   => /\ Cardinality(RowsFor("stripe", wh[r].sid)) = 1
                      /\ \A i \in RowsFor("stripe", wh[r].sid) :
                             purchases[i].user_id = Null)
    /\ [][\A r \in Reqs :
             (Anonymous(r) /\ wh'[r] # wh[r] /\ wh[r].pc # "done")
             => users' = users]_vars

\* an anonymous purchase has been recorded while a user is registered
C16_Witness ==
    \E r \in Reqs :
        /\ Anonymous(r) /\ wh[r].pc = "done" /\ wh[r].inserted = "ok"
        /\ \E i \in RowsFor("stripe", wh[r].sid) : purchases[i].user_id = Null
        /\ users # {}
        /\ \A u \in users : ~u.is_premium

\* C17: in every step of register, me and webhook deliveries of any kind, every
\* user row that exists keeps existing with the same id and email, and a user
\* whose is_premium is true stays premium.
C17_PremiumMonotonic ==
    [][\A u \in users :
          /\ \E v \in users' : v.id = u.id /\ v.email = u.email
          /\ \A v \in users' :
                 (v.id = u.id \/ v.email = u.email)
                 => /\ v.id = u.id /\ v.email = u.email
                    /\ u.is_premium => v.is_premium]_vars

\* a premium user whose flag was set by one delivery and set again by a
\* redelivery, and who registered again afterwards
C17_Witness ==
    /\ \E r1, r2 \in Reqs :
          /\ r1 # r2
          /\ wh[r1].pc = "done" /\ wh[r1].updated = "set"
          /\ wh[r2].pc = "done" /\ wh[r2].updated = "set"
          /\ wh[r1].userId = wh[r2].userId
          /\ \E u \in users : u.id = wh[r1].userId /\ u.is_premium
    /\ last.route = "register" /\ last.status = 200
    /\ \E u \in last.rows : u.is_premium

\* a step in which request r, a validly-signed completion event with
\* metadata.userId = id, executes its UPDATE on id's row
GrantStep(r, id) ==
    /\ ValidlySigned(r)
    /\ wh[r].type = Completion
    /\ wh[r].userId = id
    /\ wh[r].pc = "update"
    /\ wh'[r].updated = "set"

\* C18: entitlements are granted only by verified completion events.  No user
\* is premium at the start and a new row is not premium, so a premium user has
\* had such an event processed when every step obeys: a user who is premium
\* after the step and was not before got the flag from the UPDATE of a
\* validly-signed checkout.session.completed event with metadata.userId = U;
\* the ledger changes only in the INSERT of such an event; register, me and
\* every other delivery change no premium flag and no ledger row.
C18_OnlyVerifiedCompletionGrants ==
    /\ [][/\ \A v \in users' :
                (v.is_premium /\ ~(\E u \in users : u.id = v.id /\ u.is_premium))
                => \E r \in Reqs : GrantStep(r, v.id)
          /\ purchases' # purchases
                => \E r \in Reqs :
                       /\ InsertStep(r)
                       /\ ValidlySigned(r)
                       /\ wh[r].type = Completion
                       /\ purchases'
                             = Append(purchases, purchases'[Len(purchases')])
                       /\ purchases'[Len(purchases')].provider_id = wh[r].sid]_vars
    /\ [](\A r \in Reqs :
             (wh[r].pc # "idle" /\ ~(ValidlySigned(r) /\ wh[r].type = Completion))
             => /\ wh[r].pc = "done"
                /\ wh[r].queries = 0
                /\ wh[r].updated = "none" /\ wh[r].inserted = "none")

\* a user made premium by a completion event, with the ledger row, while
\* another verified event of a different type was acknowledged without effect
C18_Witness ==
    \E r1, r2 \in Reqs :
        /\ ValidlySigned(r1) /\ wh[r1].type = Completion
        /\ wh[r1].pc = "done" /\ wh[r1].updated = "set" /\ wh[r1].inserted = "ok"
        /\ \E u \in users : u.id = wh[r1].userId /\ u.is_premium
        /\ Len(purchases) = 1 /\ purchases[1].provider_id = wh[r1].sid
        /\ ValidlySigned(r2) /\ wh[r2].type # Completion
        /\ wh[r2].pc = "done" /\ wh[r2].status = 200

\* C19: the row inserted for a verified completion event records the event's
\* own amount_total and currency, and the fixed product price (499, 'eur') only
\* where the event carries no amount or no currency; an event with amount_total
\* 0 is recorded with amount 0.
C19_RecordsEventAmount ==
    [][\A r \in Reqs, amount_total \in AmountInputs, currency \in CurrencyInputs :
          (Insert(r, TRUE, amount_total, currency) /\ purchases' # purchases)
          => LET row == purchases'[Len(purchases')]
             IN  /\ row.amount = IF amount_total = NoAmount THEN PriceDefault
                                 ELSE amount_total
                 /\ row.currency = IF currency = "" THEN "eur" ELSE currency]_vars

====
